---- MODULE Spec2Model ----
(***************************************************************************)
(* The D-Wave bridge of MQLib: the two backend adapters (DWaveQPU,         *)
(* DWaveSA, src/src/heuristics/qubo/dwave_qpu.cpp) and the solver bridge   *)
(* run_dwave_solver with its embedded interpreter                          *)
(* (src/include/heuristics/qubo/dwave_sa.h).                               *)
(*                                                                         *)
(* Weights are doubles in the code.  The model counts them in halves, so   *)
(* 1.0 is 2, -2.0 is -4 and 3.5 is 7; the code only compares a weight      *)
(* with 0.0 and copies it.                                                 *)
(***************************************************************************)
EXTENDS Integers, Sequences, FiniteSets, TLC

(***************************************************************************)
(* Bounds of the model.                                                    *)
(***************************************************************************)
NumThreads == 2
MaxSize == 3
MaxEdges == 2
MaxLen == 2

Threads == 1..NumThreads

(***************************************************************************)
(* QUBOInstance as the adapters read it: get_size(), get_lin() and the     *)
(* iterator get_all_nonzero_begin() .. get_all_nonzero_end().  Indices are *)
(* 0-based as in the code; lin is a TLA+ sequence, so lin[i] of the code   *)
(* is lin[i + 1] here.                                                     *)
(***************************************************************************)
LinWeights == {-4, 0, 2}
EdgeWeights == {0, 7}

Pairs(n) == {p \in (0..(n - 1)) \X (0..(n - 1)) : p[1] < p[2]}

Entries(n) == {[i |-> p[1], j |-> p[2], w |-> w] : p \in Pairs(n), w \in EdgeWeights}

\* Iterator contents: every pair at most once, in any order.
NonzeroLists(n) ==
    {s \in UNION {[1..k -> Entries(n)] : k \in 0..MaxEdges} :
        \A a, b \in DOMAIN s : a # b => <<s[a].i, s[a].j>> # <<s[b].i, s[b].j>>}

Instance(n, l, z) == [size |-> n, lin |-> l, nz |-> z]

EmptyInstance == Instance(0, <<>>, <<>>)
ExampleInstance == Instance(3, <<2, 0, -4>>, <<[i |-> 0, j |-> 2, w |-> 7]>>)

\* The instances the threaded specification runs the adapters on.
PairInstance == Instance(2, <<2, 0>>, <<[i |-> 0, j |-> 1, w |-> 7]>>)
BridgeInstances == {EmptyInstance, PairInstance}

(***************************************************************************)
(* Term extraction, DWaveQPU constructor (dwave_qpu.cpp 15-39).            *)
(***************************************************************************)
RECURSIVE DWaveQPU_Diag(_, _, _, _)
DWaveQPU_Diag(lin, n, i, terms) ==
    IF ~(i < n) THEN terms
    ELSE LET w == lin[i + 1]
         IN  DWaveQPU_Diag(lin, n, i + 1,
                           IF w # 0 THEN Append(terms, <<i, i, w>>) ELSE terms)

RECURSIVE DWaveQPU_OffDiag(_, _, _)
DWaveQPU_OffDiag(nz, it, terms) ==
    IF it > Len(nz) THEN terms
    ELSE LET i == nz[it].i
             j == nz[it].j
             w == nz[it].w
         IN  DWaveQPU_OffDiag(nz, it + 1,
                              IF w # 0 THEN Append(terms, <<i, j, w>>) ELSE terms)

DWaveQPU_TermsSwapped(inst) ==
    DWaveQPU_Diag(inst.lin, inst.size, 0, DWaveQPU_OffDiag(inst.nz, 1, <<>>))

DWaveQPU_Terms(inst) ==
    DWaveQPU_OffDiag(inst.nz, 1, DWaveQPU_Diag(inst.lin, inst.size, 0, <<>>))

(***************************************************************************)
(* Term extraction, DWaveSA constructor (dwave_qpu.cpp 71-93).             *)
(***************************************************************************)
RECURSIVE DWaveSA_Diag(_, _, _, _)
DWaveSA_Diag(lin, n, i, terms) ==
    IF ~(i < n) THEN terms
    ELSE LET w == lin[i + 1]
         IN  DWaveSA_Diag(lin, n, i + 1,
                          IF w # 0 THEN Append(terms, <<i, i, w>>) ELSE terms)

RECURSIVE DWaveSA_OffDiag_BothOrders(_, _, _)
DWaveSA_OffDiag_BothOrders(nz, it, terms) ==
    IF it > Len(nz) THEN terms
    ELSE LET i == nz[it].i
             j == nz[it].j
             w == nz[it].w
         IN  DWaveSA_OffDiag_BothOrders(nz, it + 1,
                 IF w # 0 THEN terms \o <<<<i, j, w>>, <<j, i, w>>>> ELSE terms)

RECURSIVE DWaveSA_OffDiag(_, _, _)
DWaveSA_OffDiag(nz, it, terms) ==
    IF it > Len(nz) THEN terms
    ELSE LET i == nz[it].i
             j == nz[it].j
             w == nz[it].w
         IN  DWaveSA_OffDiag(nz, it + 1,
                             IF w # 0 THEN Append(terms, <<i, j, w>>) ELSE terms)

DWaveSA_Terms(inst) ==
    DWaveSA_OffDiag(inst.nz, 1, DWaveSA_Diag(inst.lin, inst.size, 0, <<>>))

(***************************************************************************)
(* Values crossing the bridge.                                             *)
(***************************************************************************)
\* what() of the std::exception a step raises (pybind11 prefixes the Python
\* type name, so it is never empty).
Msgs == {"timeout", "ImportError"}
\* what() of the cast / index / type errors of dwave_sa.h 119-125.
CoerceMsg == "Unable to cast Python instance"
UnknownMsg == "Unknown exception in run_dwave_solver"
DisabledMsg == "D-Wave support not compiled (USE_DWAVE not defined)"

NoExc == [kind |-> "none", msg |-> ""]
StdExc(m) == [kind |-> "std", msg |-> m]
OtherExc == [kind |-> "other", msg |-> ""]

\* One assignment of each length 0..MaxLen: 1,0,1,...
Sample(n) == [k \in 1..n |-> k % 2]
Samples == {Sample(n) : n \in 0..MaxLen}
\* Objective values the foreign call may return (in halves).
ObjVals == {-1, 2}

\* The Python object solve_qubo returns: a sequence of `arity` elements whose
\* first two are `sample` and `weight` (each coercible or not), or no sequence.
NoRet == [kind |-> "none", arity |-> 0, sampleOk |-> FALSE, sample |-> <<>>,
          weightOk |-> FALSE, weight |-> 0]
WellFormed(s, w) ==
    [kind |-> "seq", arity |-> 2, sampleOk |-> TRUE, sample |-> s,
     weightOk |-> TRUE, weight |-> w]
RetVals ==
    {WellFormed(s, w) : s \in Samples, w \in ObjVals}
    \cup {[NoRet EXCEPT !.kind = "notseq"]}
    \cup {[WellFormed(Sample(1), 2) EXCEPT !.arity = a] : a \in {1, 3}}
    \cup {[WellFormed(<<>>, 2) EXCEPT !.sampleOk = FALSE],
          [WellFormed(Sample(1), 0) EXCEPT !.weightOk = FALSE]}

CfgPathObj_AlwaysStr(config_json_path) ==
    [none |-> FALSE, str |-> config_json_path]

\* config_json_path as the foreign call gets it (dwave_sa.h 110-115).
CfgPathObj(config_json_path) ==
    IF config_json_path = "" THEN [none |-> TRUE, str |-> ""]
    ELSE [none |-> FALSE, str |-> config_json_path]

NoArgs == [made |-> FALSE, terms |-> <<>>, backend |-> "", cfg |-> CfgPathObj("")]

EmptyResult == [best_sample |-> <<>>, best_weight |-> 0]

\* The search-path entries the bridge inserts (dwave_sa.h 70, 86-93).
HelperDir == "python"
VenvSite == ".venv/lib/pythonX.Y/site-packages"

VARIABLES
    useDwave,      \* the build: USE_DWAVE defined or not
    qi,            \* the QUBOInstance the adapters are constructed on
    pc,            \* per thread: where its execution stands
    caller,        \* per thread: "DWaveQPU", "DWaveSA" or "direct"
    backend,       \* per thread: argument backend
    cfgPath,       \* per thread: argument config_json_path
    terms,         \* per thread: argument qubo_terms
    bridgeCalls,   \* per thread: run_dwave_solver calls of this execution
    env,           \* the function-local static of get_env
    initCount,     \* PythonEnvironment constructions completed
    gil,           \* the thread holding the interpreter lock, 0 if none
    release,       \* per thread: gil_scoped_acquire's release flag
    sysPath,       \* sys.path entries the bridge has inserted
    foreignCalls,  \* calls of solve_qubo made
    callArgs,      \* per thread: arguments of its solve_qubo call
    ret,           \* per thread: what solve_qubo returned
    exc,           \* per thread: the exception leaving the try block
    result,        \* per thread: DWaveResult result / res
    error,         \* per thread: std::string error of the caller
    reports,       \* per thread: solutions handed to Report
    diag           \* per thread: lines written to std::cerr

vars ==
    <<useDwave, qi, pc, caller, backend, cfgPath, terms, bridgeCalls,
      env, initCount, gil, release, sysPath, foreignCalls, callArgs, ret, exc,
      result, error, reports, diag>>

shared == <<env, initCount, gil, sysPath, foreignCalls>>
callFrame == <<caller, backend, cfgPath, terms, bridgeCalls>>
outcome == <<result, error, reports, diag>>

InitCommon ==
    /\ pc = [t \in Threads |-> "idle"]
    /\ caller = [t \in Threads |-> "none"]
    /\ backend = [t \in Threads |-> ""]
    /\ cfgPath = [t \in Threads |-> ""]
    /\ terms = [t \in Threads |-> <<>>]
    /\ bridgeCalls = [t \in Threads |-> 0]
    /\ env = "uninit"
    /\ initCount = 0
    /\ gil = 0
    /\ release = [t \in Threads |-> FALSE]
    /\ sysPath = <<>>
    /\ foreignCalls = 0
    /\ callArgs = [t \in Threads |-> NoArgs]
    /\ ret = [t \in Threads |-> NoRet]
    /\ exc = [t \in Threads |-> NoExc]
    /\ result = [t \in Threads |-> EmptyResult]
    /\ error = [t \in Threads |-> ""]
    /\ reports = [t \in Threads |-> <<>>]
    /\ diag = [t \in Threads |-> <<>>]

Init ==
    /\ useDwave = TRUE
    /\ qi \in BridgeInstances
    /\ InitCommon

(***************************************************************************)
(* A caller enters: the adapter constructor extracts the terms and calls   *)
(* run_dwave_solver (dwave_qpu.cpp 15-42, 71-96).                          *)
(***************************************************************************)
Enter(t, who, b, c, ts) ==
    /\ pc[t] = "idle"
    /\ caller' = [caller EXCEPT ![t] = who]
    /\ backend' = [backend EXCEPT ![t] = b]
    /\ cfgPath' = [cfgPath EXCEPT ![t] = c]
    /\ terms' = [terms EXCEPT ![t] = ts]
    /\ bridgeCalls' = [bridgeCalls EXCEPT ![t] = 1]
    /\ callArgs' = [callArgs EXCEPT ![t] = NoArgs]
    /\ ret' = [ret EXCEPT ![t] = NoRet]
    /\ exc' = [exc EXCEPT ![t] = NoExc]
    /\ result' = [result EXCEPT ![t] = EmptyResult]
    /\ error' = [error EXCEPT ![t] = ""]
    /\ reports' = [reports EXCEPT ![t] = <<>>]
    /\ diag' = [diag EXCEPT ![t] = <<>>]
    /\ pc' = [pc EXCEPT ![t] = "bridge"]
    /\ UNCHANGED <<useDwave, qi, shared, release>>

\* An extraction that consumes what it reads: the next one finds nothing.
DWaveQPU_Start_Consuming(t) ==
    Enter(t, "DWaveQPU", "qpu", "",
          IF \E u \in Threads : pc[u] = "bridge" THEN <<>> ELSE DWaveQPU_Terms(qi))

DWaveQPU_Start(t) == Enter(t, "DWaveQPU", "qpu", "", DWaveQPU_Terms(qi))

DWaveSA_Start_WithConfig(t) ==
    Enter(t, "DWaveSA", "sa", "cfg.json", DWaveSA_Terms(qi))

DWaveSA_Start(t) == Enter(t, "DWaveSA", "sa", "", DWaveSA_Terms(qi))

\* Any other caller of the declared interface (dwave_bridge.h 26-30).
ConfigPaths == {"", "cfg.json"}

TermLists == {<<>>, <<<<0, 0, 2>>, <<0, 1, 7>>>>}

Direct_Start(t) ==
    \E b \in {"qpu", "sa"}, c \in ConfigPaths, ts \in TermLists :
        Enter(t, "direct", b, c, ts)

(***************************************************************************)
(* run_dwave_solver without USE_DWAVE (dwave_sa.h 145-158).                *)
(***************************************************************************)
DisabledBody_NoMessage ==
    [error |-> "", result |-> EmptyResult]

DisabledBody ==
    [error |-> DisabledMsg, result |-> EmptyResult]

RunDisabled(t) ==
    /\ ~useDwave
    /\ pc[t] = "bridge"
    /\ error' = [error EXCEPT ![t] = DisabledBody.error]
    /\ result' = [result EXCEPT ![t] = DisabledBody.result]
    /\ pc' = [pc EXCEPT ![t] = "returned"]
    /\ UNCHANGED <<useDwave, qi, callFrame, shared, release, callArgs,
                   ret, exc, reports, diag>>

(***************************************************************************)
(* get_env (dwave_sa.h 43-46, called at 55): the function-local static is  *)
(* constructed by the first thread to arrive; a thread arriving during the *)
(* construction waits; a construction that throws leaves the static        *)
(* unconstructed and the exception leaves run_dwave_solver, which calls    *)
(* get_env outside its try block.                                          *)
(***************************************************************************)
StaticGuardFree_Unguarded == env # "ready"

StaticGuardFree == env = "uninit"

GetEnvBegin(t) ==
    /\ useDwave
    /\ pc[t] = "bridge"
    /\ StaticGuardFree
    /\ env' = "constructing"
    /\ pc' = [pc EXCEPT ![t] = "constructing"]
    /\ UNCHANGED <<useDwave, qi, callFrame, initCount, gil, sysPath,
                   foreignCalls, release, callArgs, ret, exc, outcome>>

\* PythonEnvironment() (36-41): scoped_interpreter starts the interpreter and
\* leaves the constructing thread holding its lock.
EnvInitDone(t) ==
    /\ pc[t] = "constructing"
    /\ env' = "ready"
    /\ initCount' = initCount + 1
    /\ gil' = t
    /\ pc' = [pc EXCEPT ![t] = "gil_acquire"]
    /\ UNCHANGED <<useDwave, qi, callFrame, sysPath, foreignCalls,
                   release, callArgs, ret, exc, outcome>>

EnvInitThrow(t) ==
    /\ pc[t] = "constructing"
    /\ env' = "uninit"
    /\ pc' = [pc EXCEPT ![t] = "escaped"]
    /\ UNCHANGED <<useDwave, qi, callFrame, initCount, gil, sysPath,
                   foreignCalls, release, callArgs, ret, exc, outcome>>

GetEnvReady(t) ==
    /\ useDwave
    /\ pc[t] = "bridge"
    /\ env = "ready"
    /\ pc' = [pc EXCEPT ![t] = "gil_acquire"]
    /\ UNCHANGED <<useDwave, qi, callFrame, shared, release, callArgs,
                   ret, exc, outcome>>

(***************************************************************************)
(* py::gil_scoped_acquire gil (63): a thread that holds the interpreter    *)
(* lock keeps it and will not release it at scope exit; any other thread   *)
(* waits until the lock is free, takes it and releases it at scope exit.   *)
(***************************************************************************)
GilAcquire(t) ==
    /\ pc[t] = "gil_acquire"
    /\ \/ /\ gil = t
          /\ release' = [release EXCEPT ![t] = FALSE]
          /\ gil' = gil
       \/ /\ gil = 0
          /\ release' = [release EXCEPT ![t] = TRUE]
          /\ gil' = t
    /\ pc' = [pc EXCEPT ![t] = "path_setup"]
    /\ UNCHANGED <<useDwave, qi, callFrame, env, initCount, sysPath,
                   foreignCalls, callArgs, ret, exc, outcome>>

(***************************************************************************)
(* Leaving the try block (125-140) with exception e in flight (or none),   *)
(* result as the block left it and v the object solve_qubo returned: gil's *)
(* destructor, the handler that matches e, return result.                  *)
(***************************************************************************)
CatchHandler_KeepsSample(e, res) ==
    IF e.kind = "std" THEN [error |-> e.msg, result |-> res]
    ELSE IF e.kind = "other" THEN [error |-> UnknownMsg, result |-> res]
    ELSE [error |-> "", result |-> res]

CatchHandler(e, res) ==
    IF e.kind = "std" THEN [error |-> e.msg, result |-> EmptyResult]
    ELSE IF e.kind = "other" THEN [error |-> UnknownMsg, result |-> EmptyResult]
    ELSE [error |-> "", result |-> res]

GilScopeExit(t) == IF release[t] THEN 0 ELSE gil

LeaveTry(t, e, res, v) ==
    /\ gil' = GilScopeExit(t)
    /\ exc' = [exc EXCEPT ![t] = e]
    /\ ret' = [ret EXCEPT ![t] = v]
    /\ error' = [error EXCEPT ![t] = CatchHandler(e, res).error]
    /\ result' = [result EXCEPT ![t] = CatchHandler(e, res).result]
    /\ pc' = [pc EXCEPT ![t] = "returned"]

\* A path setup that inserts the helper directory only when it is missing.
PathSetup_IfAbsent(t) ==
    /\ pc[t] = "path_setup"
    /\ \/ /\ sysPath' = IF \E k \in DOMAIN sysPath : sysPath[k] = HelperDir
                            THEN sysPath
                            ELSE <<HelperDir>> \o sysPath
          /\ pc' = [pc EXCEPT ![t] = "venv"]
          /\ UNCHANGED <<gil, ret, exc, result, error>>
       \/ /\ \E m \in Msgs : LeaveTry(t, StdExc(m), EmptyResult, NoRet)
          /\ sysPath' = sysPath
    /\ UNCHANGED <<useDwave, qi, callFrame, env, initCount, foreignCalls,
                   release, callArgs, reports, diag>>

\* import sys; sys.path.insert(0, "python") (66-70).
PathSetup(t) ==
    /\ pc[t] = "path_setup"
    /\ \/ /\ sysPath' = <<HelperDir>> \o sysPath
          /\ pc' = [pc EXCEPT ![t] = "venv"]
          /\ UNCHANGED <<gil, ret, exc, result, error>>
       \/ /\ \E m \in Msgs : LeaveTry(t, StdExc(m), EmptyResult, NoRet)
          /\ sysPath' = sysPath
    /\ UNCHANGED <<useDwave, qi, callFrame, env, initCount, foreignCalls,
                   release, callArgs, reports, diag>>

VenvInsert(found, path) ==
    IF found = "present" THEN <<VenvSite>> \o path ELSE path

\* The step without its own handler: its exception ends the invoke.
VenvStep_Propagates(t) ==
    /\ pc[t] = "venv"
    /\ \/ /\ \E found \in {"absent", "present"} :
                sysPath' = VenvInsert(found, sysPath)
          /\ pc' = [pc EXCEPT ![t] = "import"]
          /\ UNCHANGED <<gil, ret, exc, result, error>>
       \/ /\ \E m \in Msgs : LeaveTry(t, StdExc(m), EmptyResult, NoRet)
          /\ sysPath' = sysPath
    /\ UNCHANGED <<useDwave, qi, callFrame, env, initCount, foreignCalls,
                   release, callArgs, reports, diag>>

\* The inner try block (79-97): the version-specific directory is inserted
\* when isdir finds it; an exception of the block (from the import of os, the
\* version query or isdir itself) is swallowed.
VenvStep(t) ==
    /\ pc[t] = "venv"
    /\ \E found \in {"threw", "absent", "present"} :
         sysPath' = VenvInsert(found, sysPath)
    /\ pc' = [pc EXCEPT ![t] = "import"]
    /\ UNCHANGED <<useDwave, qi, callFrame, env, initCount, gil,
                   foreignCalls, release, callArgs, ret, exc, outcome>>

\* import mqlib_dwave, solve_qubo lookup, argument marshalling and the call
\* itself (99-118).
ForeignArgs(t) ==
    [made |-> TRUE, terms |-> terms[t], backend |-> backend[t],
     cfg |-> CfgPathObj(cfgPath[t])]

ImportAndCall(t) ==
    /\ pc[t] = "import"
    /\ \/ /\ foreignCalls' = foreignCalls + 1
          /\ callArgs' = [callArgs EXCEPT ![t] = ForeignArgs(t)]
          /\ pc' = [pc EXCEPT ![t] = "in_python"]
          /\ UNCHANGED <<gil, ret, exc, result, error>>
       \/ /\ \E m \in Msgs : LeaveTry(t, StdExc(m), EmptyResult, NoRet)
          /\ UNCHANGED <<foreignCalls, callArgs>>
    /\ UNCHANGED <<useDwave, qi, callFrame, env, initCount, sysPath, release,
                   reports, diag>>

(***************************************************************************)
(* While solve_qubo runs Python code (118) the interpreter may give up its *)
(* lock (a blocking call, or the switch interval when another thread       *)
(* waits) and takes it again before going on.                              *)
(***************************************************************************)
InterpreterYield(t) ==
    /\ pc[t] = "in_python"
    /\ gil' = 0
    /\ pc' = [pc EXCEPT ![t] = "in_python_nogil"]
    /\ UNCHANGED <<useDwave, qi, callFrame, env, initCount, sysPath,
                   foreignCalls, release, callArgs, ret, exc, outcome>>

InterpreterResume(t) ==
    /\ pc[t] = "in_python_nogil"
    /\ gil = 0
    /\ gil' = t
    /\ pc' = [pc EXCEPT ![t] = "in_python"]
    /\ UNCHANGED <<useDwave, qi, callFrame, env, initCount, sysPath,
                   foreignCalls, release, callArgs, ret, exc, outcome>>

(***************************************************************************)
(* The end of the try block (118-125): the call raises, or returns a       *)
(* Python object that is coerced into result.                              *)
(***************************************************************************)
Coerce(v) ==
    IF v.kind # "seq" \/ v.arity < 2
        THEN [result |-> EmptyResult, exc |-> StdExc(CoerceMsg)]
    ELSE IF ~v.sampleOk
        THEN [result |-> EmptyResult, exc |-> StdExc(CoerceMsg)]
    ELSE IF ~v.weightOk
        THEN [result |-> [best_sample |-> v.sample, best_weight |-> 0],
              exc |-> StdExc(CoerceMsg)]
    ELSE [result |-> [best_sample |-> v.sample, best_weight |-> v.weight],
          exc |-> NoExc]

ForeignReturn(t) ==
    /\ pc[t] = "in_python"
    /\ \E v \in RetVals : LeaveTry(t, Coerce(v).exc, Coerce(v).result, v)
    /\ UNCHANGED <<useDwave, qi, callFrame, env, initCount, sysPath,
                   foreignCalls, release, callArgs, reports, diag>>

ForeignRaise(t) ==
    /\ pc[t] = "in_python"
    /\ \E e \in {StdExc(m) : m \in Msgs} \cup {OtherExc} :
         LeaveTry(t, e, EmptyResult, NoRet)
    /\ UNCHANGED <<useDwave, qi, callFrame, env, initCount, sysPath,
                   foreignCalls, release, callArgs, reports, diag>>

(***************************************************************************)
(* The adapters after the call (dwave_qpu.cpp 44-55, 98-108).  When the    *)
(* constructor returns, its locals (terms, error, res) are gone; what it   *)
(* reported and what it wrote to std::cerr stay.                           *)
(***************************************************************************)
Diagnostic(label, what, msg) == [label |-> label, what |-> what, msg |-> msg]
Solution(assignment, inst) == [assignment |-> assignment, instance |-> inst]

ConstructorExit(t) ==
    /\ terms' = [terms EXCEPT ![t] = <<>>]
    /\ callArgs' = [callArgs EXCEPT ![t] = NoArgs]
    /\ ret' = [ret EXCEPT ![t] = NoRet]
    /\ exc' = [exc EXCEPT ![t] = NoExc]
    /\ result' = [result EXCEPT ![t] = EmptyResult]
    /\ error' = [error EXCEPT ![t] = ""]
    /\ pc' = [pc EXCEPT ![t] = "done"]
    /\ UNCHANGED <<useDwave, qi, caller, backend, cfgPath, bridgeCalls, shared,
                   release>>

DWaveQPU_Handle_NoEmptyCheck(err, res, inst) ==
    IF err # ""
        THEN [diag |-> <<Diagnostic("DWaveQPU", "error", err)>>, reports |-> <<>>]
    ELSE [diag |-> <<>>, reports |-> <<Solution(res.best_sample, inst)>>]

\* The error branch without its return.
DWaveQPU_Handle_FallsThrough(err, res, inst) ==
    [diag |-> (IF err # "" THEN <<Diagnostic("DWaveQPU", "error", err)>> ELSE <<>>)
              \o (IF res.best_sample = <<>>
                     THEN <<Diagnostic("DWaveQPU", "no sample returned", "")>>
                     ELSE <<>>),
     reports |-> IF res.best_sample = <<>> THEN <<>>
                 ELSE <<Solution(res.best_sample, inst)>>]

DWaveQPU_Handle(err, res, inst) ==
    IF err # ""
        THEN [diag |-> <<Diagnostic("DWaveQPU", "error", err)>>, reports |-> <<>>]
    ELSE IF res.best_sample = <<>>
        THEN [diag |-> <<Diagnostic("DWaveQPU", "no sample returned", "")>>,
              reports |-> <<>>]
    ELSE [diag |-> <<>>, reports |-> <<Solution(res.best_sample, inst)>>]

DWaveQPU_Finish(t) ==
    /\ pc[t] = "returned"
    /\ caller[t] = "DWaveQPU"
    /\ diag' = [diag EXCEPT ![t] = @ \o DWaveQPU_Handle(error[t], result[t], qi).diag]
    /\ reports' = [reports EXCEPT ![t] =
                      @ \o DWaveQPU_Handle(error[t], result[t], qi).reports]
    /\ ConstructorExit(t)

DWaveSA_Handle_NoReport(err, res, inst) ==
    IF err # ""
        THEN [diag |-> <<Diagnostic("DWaveSA", "error", err)>>, reports |-> <<>>]
    ELSE IF res.best_sample = <<>>
        THEN [diag |-> <<Diagnostic("DWaveSA", "no sample returned", "")>>,
              reports |-> <<>>]
    ELSE [diag |-> <<>>, reports |-> <<>>]

DWaveSA_Handle_EmptyIsSuccess(err, res, inst) ==
    IF err # ""
        THEN [diag |-> <<Diagnostic("DWaveSA", "error", err)>>, reports |-> <<>>]
    ELSE [diag |-> <<>>, reports |-> <<Solution(res.best_sample, inst)>>]

DWaveSA_Handle(err, res, inst) ==
    IF err # ""
        THEN [diag |-> <<Diagnostic("DWaveSA", "error", err)>>, reports |-> <<>>]
    ELSE IF res.best_sample = <<>>
        THEN [diag |-> <<Diagnostic("DWaveSA", "no sample returned", "")>>,
              reports |-> <<>>]
    ELSE [diag |-> <<>>, reports |-> <<Solution(res.best_sample, inst)>>]

\* An adapter that calls the bridge again after an error.
DWaveSA_Finish_Retry(t) ==
    /\ pc[t] = "returned"
    /\ caller[t] = "DWaveSA"
    /\ IF error[t] # "" /\ bridgeCalls[t] < 2
          THEN /\ bridgeCalls' = [bridgeCalls EXCEPT ![t] = @ + 1]
               /\ callArgs' = [callArgs EXCEPT ![t] = NoArgs]
               /\ ret' = [ret EXCEPT ![t] = NoRet]
               /\ exc' = [exc EXCEPT ![t] = NoExc]
               /\ result' = [result EXCEPT ![t] = EmptyResult]
               /\ error' = [error EXCEPT ![t] = ""]
               /\ pc' = [pc EXCEPT ![t] = "bridge"]
               /\ UNCHANGED <<useDwave, qi, caller, backend, cfgPath, terms,
                              shared, release, reports, diag>>
          ELSE /\ diag' = [diag EXCEPT ![t] =
                              @ \o DWaveSA_Handle(error[t], result[t], qi).diag]
               /\ reports' = [reports EXCEPT ![t] =
                                 @ \o DWaveSA_Handle(error[t], result[t], qi).reports]
               /\ ConstructorExit(t)

DWaveSA_Finish(t) ==
    /\ pc[t] = "returned"
    /\ caller[t] = "DWaveSA"
    /\ diag' = [diag EXCEPT ![t] = @ \o DWaveSA_Handle(error[t], result[t], qi).diag]
    /\ reports' = [reports EXCEPT ![t] =
                      @ \o DWaveSA_Handle(error[t], result[t], qi).reports]
    /\ ConstructorExit(t)

Direct_Finish(t) ==
    /\ pc[t] = "returned"
    /\ caller[t] = "direct"
    /\ UNCHANGED <<reports, diag>>
    /\ ConstructorExit(t)

Next ==
    \E t \in Threads :
        \/ DWaveQPU_Start(t)
        \/ DWaveSA_Start(t)
        \/ GetEnvBegin(t)
        \/ EnvInitDone(t)
        \/ EnvInitThrow(t)
        \/ GetEnvReady(t)
        \/ GilAcquire(t)
        \/ PathSetup(t)
        \/ VenvStep(t)
        \/ ImportAndCall(t)
        \/ InterpreterYield(t)
        \/ InterpreterResume(t)
        \/ ForeignReturn(t)
        \/ ForeignRaise(t)
        \/ DWaveQPU_Finish(t)
        \/ DWaveSA_Finish(t)

Spec == Init /\ [][Next]_vars

(***************************************************************************)
(* Term extraction alone, over every instance within the bounds.           *)
(***************************************************************************)
InitExtract ==
    /\ useDwave = TRUE
    /\ \E n \in 0..MaxSize :
         \E l \in [1..n -> LinWeights], z \in NonzeroLists(n) :
            qi = Instance(n, l, z)
    /\ InitCommon

NextExtract ==
    \/ DWaveQPU_Start(1)
    \/ DWaveSA_Start(1)

SpecExtract == InitExtract /\ [][NextExtract]_vars

(***************************************************************************)
(* The build without USE_DWAVE: the adapters and any other caller.         *)
(***************************************************************************)
InitDisabled ==
    /\ useDwave = FALSE
    /\ qi \in BridgeInstances
    /\ InitCommon

NextDisabled ==
    \E t \in Threads :
        \/ DWaveQPU_Start(t)
        \/ DWaveSA_Start(t)
        \/ Direct_Start(t)
        \/ RunDisabled(t)
        \/ DWaveQPU_Finish(t)
        \/ DWaveSA_Finish(t)
        \/ Direct_Finish(t)

SpecDisabled == InitDisabled /\ [][NextDisabled]_vars

(***************************************************************************)
(* QUBOSolution (heuristics/qubo/qubo_solution.h) is not among the source  *)
(* files; its objective is the quadratic form of the assignment over the   *)
(* instance, which the solution object computes for itself.                *)
(***************************************************************************)
RECURSIVE SumLin(_, _, _)
SumLin(x, lin, k) ==
    IF k = 0 THEN 0 ELSE lin[k] * x[k] + SumLin(x, lin, k - 1)

RECURSIVE SumNonzero(_, _, _)
SumNonzero(x, nz, k) ==
    IF k = 0 THEN 0
    ELSE nz[k].w * x[nz[k].i + 1] * x[nz[k].j + 1] + SumNonzero(x, nz, k - 1)

QUBOSolutionWeight(sol) ==
    SumLin(sol.assignment, sol.instance.lin, sol.instance.size)
    + SumNonzero(sol.assignment, sol.instance.nz, Len(sol.instance.nz))

(***************************************************************************)
(* Vocabulary of the properties.                                           *)
(***************************************************************************)
Adapters == {"DWaveQPU", "DWaveSA"}

\* Between gil_scoped_acquire and the end of the try block.
InTry(t) ==
    pc[t] \in {"path_setup", "venv", "import", "in_python", "in_python_nogil"}

\* Past get_env.
PastGetEnv(t) == InTry(t) \/ pc[t] \in {"gil_acquire", "returned"}

\* solve_qubo returned a two-element (assignment, objective).
IsPair(v) == v.kind = "seq" /\ v.arity = 2 /\ v.sampleOk /\ v.weightOk

\* The adapter's step from the return of run_dwave_solver to its own return.
AdapterHandles(t) ==
    pc[t] = "returned" /\ caller[t] \in Adapters /\ pc'[t] = "done"

NoSample(t) == <<Diagnostic(caller[t], "no sample returned", "")>>

(***************************************************************************)
(* C1.  When a step of the try block raises a std::exception with message  *)
(* m (import sys and the helper-directory insert, the import of            *)
(* mqlib_dwave, solve_qubo itself, the coercion of its result),            *)
(* run_dwave_solver returns an empty best_sample and error = m, and the    *)
(* adapter goes on to make no Report call.                                 *)
(***************************************************************************)
C1_RaiseGivesErrorNoReport ==
    [][\A t \in Threads :
          (pc[t] = "returned" /\ exc[t].kind = "std")
              => /\ error[t] = exc[t].msg
                 /\ result[t].best_sample = <<>>
                 /\ reports[t] = <<>>
                 /\ reports'[t] = <<>>]_vars

C1_Witness ==
    \E t \in Threads :
        /\ pc[t] = "returned"
        /\ callArgs[t].made
        /\ exc[t] = StdExc("timeout")
        /\ error[t] = "timeout"

(***************************************************************************)
(* C2.  Without USE_DWAVE every call of run_dwave_solver, whatever its     *)
(* terms, backend and config path and whatever calls came before, returns  *)
(* an empty best_sample and the "not compiled" error, and solve_qubo is    *)
(* never called nor the interpreter started.                               *)
(***************************************************************************)
C2_DisabledAlwaysFails ==
    /\ foreignCalls = 0
    /\ env = "uninit"
    /\ gil = 0
    /\ \A t \in Threads :
          /\ pc[t] \in {"idle", "bridge", "returned", "done"}
          /\ pc[t] = "returned"
                => /\ error[t] = DisabledMsg
                   /\ result[t].best_sample = <<>>
                   /\ ~callArgs[t].made

C2_Witness ==
    \E t1, t2 \in Threads :
        /\ t1 # t2
        /\ pc[t1] = "done"
        /\ pc[t2] = "returned"
        /\ caller[t2] = "direct"
        /\ cfgPath[t2] = "cfg.json"
        /\ terms[t2] # <<>>
        /\ error[t2] = DisabledMsg

(***************************************************************************)
(* C3.  An adapter execution calls Report at most once, and only in the    *)
(* step that follows a call of run_dwave_solver that returned no error     *)
(* and a non-empty best_sample.                                            *)
(***************************************************************************)
C3_ReportAtMostOnceOnSuccess ==
    [][\A t \in Threads :
          /\ Len(reports'[t]) <= 1
          /\ reports'[t] # reports[t]
                => /\ AdapterHandles(t)
                   /\ reports[t] = <<>>
                   /\ error[t] = ""
                   /\ exc[t] = NoExc
                   /\ result[t].best_sample # <<>>]_vars

C3_Witness ==
    \E t1, t2 \in Threads :
        /\ pc[t1] = "done" /\ Len(reports[t1]) = 1
        /\ pc[t2] = "done" /\ reports[t2] = <<>> /\ diag[t2] # <<>>

(***************************************************************************)
(* C4, as claimed.  When solve_qubo returns (assignment, objective) with   *)
(* an assignment as long as the instance, the adapter reports exactly once *)
(* the solution built from that assignment and the instance, and the       *)
(* objective of the reported solution is the objective solve_qubo          *)
(* returned.                                                               *)
(***************************************************************************)
C4_AsClaimed ==
    [][\A t \in Threads :
          (AdapterHandles(t) /\ IsPair(ret[t]) /\ Len(ret[t].sample) = qi.size)
              => /\ reports'[t] = <<Solution(ret[t].sample, qi)>>
                 /\ QUBOSolutionWeight(reports'[t][1]) = ret[t].weight]_vars

(***************************************************************************)
(* C4, amended.  When solve_qubo returns (assignment, objective) with a    *)
(* non-empty assignment as long as the instance, the adapter reports       *)
(* exactly once, and what it reports is the solution built from that       *)
(* assignment and the instance alone, with no diagnostic.                  *)
(***************************************************************************)
C4_ReportsReturnedAssignment ==
    [][\A t \in Threads :
          (/\ AdapterHandles(t)
           /\ IsPair(ret[t])
           /\ Len(ret[t].sample) = qi.size
           /\ qi.size > 0)
              => /\ reports[t] = <<>>
                 /\ reports'[t] = <<Solution(ret[t].sample, qi)>>
                 /\ diag'[t] = <<>>]_vars

C4_Witness ==
    \E t \in Threads :
        /\ qi = PairInstance
        /\ pc[t] = "done"
        /\ reports[t] = <<Solution(Sample(2), PairInstance)>>

(***************************************************************************)
(* C5.  When run_dwave_solver returns no error and a best_sample whose     *)
(* length differs from the instance size, the adapter emits a diagnostic   *)
(* and reports nothing.                                                    *)
(***************************************************************************)
C5_WrongLengthIsFailure ==
    [][\A t \in Threads :
          (/\ AdapterHandles(t)
           /\ error[t] = ""
           /\ Len(result[t].best_sample) # qi.size)
              => /\ reports'[t] = <<>>
                 /\ Len(diag'[t]) = 1]_vars

(***************************************************************************)
(* C6, as claimed.  On the instance of size 0 the extracted term list is   *)
(* empty, and when solve_qubo answers it with an empty assignment the      *)
(* bridge returns that assignment with no error and the adapter handles    *)
(* it as a success: no failure diagnostic.                                 *)
(***************************************************************************)
C6_AsClaimed ==
    [][\A t \in Threads :
          /\ (qi.size = 0 /\ pc[t] \notin {"idle", "done", "escaped"})
                => terms[t] = <<>>
          /\ (/\ qi.size = 0
              /\ AdapterHandles(t)
              /\ IsPair(ret[t])
              /\ ret[t].sample = <<>>)
                => /\ error[t] = ""
                   /\ result[t].best_sample = <<>>
                   /\ diag'[t] = <<>>]_vars

(***************************************************************************)
(* C6, amended.  On the instance of size 0 the extracted term list is      *)
(* empty, and when solve_qubo answers it with an empty assignment the      *)
(* bridge returns that assignment with no error; the adapter then handles  *)
(* it as "no sample returned": one diagnostic, no solution, no Report.     *)
(***************************************************************************)
C6_SizeZeroIsNoSample ==
    [][\A t \in Threads :
          /\ (qi.size = 0 /\ pc[t] \notin {"idle", "done", "escaped"})
                => terms[t] = <<>>
          /\ (/\ qi.size = 0
              /\ AdapterHandles(t)
              /\ IsPair(ret[t])
              /\ ret[t].sample = <<>>)
                => /\ error[t] = ""
                   /\ result[t].best_sample = <<>>
                   /\ reports'[t] = <<>>
                   /\ diag'[t] = NoSample(t)]_vars

C6_Witness ==
    \E t \in Threads :
        /\ qi.size = 0
        /\ pc[t] = "returned"
        /\ terms[t] = <<>>
        /\ callArgs[t].made
        /\ IsPair(ret[t])
        /\ ret[t].sample = <<>>
        /\ error[t] = ""

(***************************************************************************)
(* C7.  No exception leaves run_dwave_solver: whatever step fails, the     *)
(* initialization in get_env included, the call returns.                   *)
(***************************************************************************)
C7_NothingEscapes ==
    \A t \in Threads : pc[t] # "escaped"

(***************************************************************************)
(* C8.  The interpreter is constructed at most once; at most one thread    *)
(* is constructing it at a time; the static is ready exactly when one      *)
(* construction has completed; and every call that is past get_env runs    *)
(* on that one completed construction.                                     *)
(***************************************************************************)
C8_InitializedOnce ==
    /\ initCount <= 1
    /\ Cardinality({t \in Threads : pc[t] = "constructing"}) <= 1
    /\ (env = "constructing") = (\E t \in Threads : pc[t] = "constructing")
    /\ (env = "ready") = (initCount = 1)
    /\ \A t \in Threads : PastGetEnv(t) => env = "ready" /\ initCount = 1
    /\ foreignCalls > 0 => initCount = 1

C8_Witness ==
    \E t1, t2 \in Threads :
        /\ t1 # t2
        /\ pc[t1] = "returned" /\ callArgs[t1].made
        /\ pc[t2] = "returned" /\ callArgs[t2].made
        /\ caller[t1] # caller[t2]
        /\ initCount = 1

(***************************************************************************)
(* C9.  The sections of two calls between gil_scoped_acquire and the end   *)
(* of the try block never overlap: at most one thread is inside at a time. *)
(***************************************************************************)
C9_InvokesNeverOverlap ==
    \A t1, t2 \in Threads : (t1 # t2 /\ InTry(t1)) => ~InTry(t2)

(***************************************************************************)
(* C10.  The extracted term list is the reference list: (i, i, lin[i]) for *)
(* each i ascending with lin[i] # 0, then (i, j, w) for each iterator      *)
(* entry with w # 0 in iterator order; no term has weight 0; the size-3    *)
(* example gives <<(0,0,1.0), (2,2,-2.0), (0,2,3.5)>>.                     *)
(***************************************************************************)
ReferenceTerms(inst) ==
    LET LinNonzero(i) == inst.lin[i + 1] # 0
        EntryNonzero(e) == e.w # 0
        idx == SelectSeq([k \in 1..inst.size |-> k - 1], LinNonzero)
        ents == SelectSeq(inst.nz, EntryNonzero)
    IN  [k \in 1..Len(idx) |-> <<idx[k], idx[k], inst.lin[idx[k] + 1]>>]
        \o [k \in 1..Len(ents) |-> <<ents[k].i, ents[k].j, ents[k].w>>]

ExampleTerms == <<<<0, 0, 2>>, <<2, 2, -4>>, <<0, 2, 7>>>>

C10_ExtractionIsReference ==
    \A t \in Threads :
        pc[t] = "bridge"
            => /\ terms[t] = ReferenceTerms(qi)
               /\ \A k \in DOMAIN terms[t] : terms[t][k][3] # 0
               /\ qi = ExampleInstance => terms[t] = ExampleTerms

C10_Witness ==
    \E t \in Threads :
        /\ pc[t] = "bridge"
        /\ caller[t] = "DWaveSA"
        /\ qi = ExampleInstance
        /\ terms[t] = ExampleTerms

(***************************************************************************)
(* C11.  Every iterator entry with nonzero weight appears in the extracted *)
(* term list exactly once, as an off-diagonal term with its weight; every  *)
(* off-diagonal term comes from such an entry; and row <= col holds for    *)
(* every off-diagonal term.                                                *)
(***************************************************************************)
OffDiagonal(ts) == {k \in DOMAIN ts : ts[k][1] # ts[k][2]}

C11_OffDiagonalOnceOrdered ==
    \A t \in Threads :
        pc[t] = "bridge"
            => /\ \A a \in DOMAIN qi.nz :
                     qi.nz[a].w # 0
                         => Cardinality({k \in OffDiagonal(terms[t]) :
                                 {terms[t][k][1], terms[t][k][2]}
                                     = {qi.nz[a].i, qi.nz[a].j}}) = 1
               /\ \A k \in OffDiagonal(terms[t]) :
                     /\ terms[t][k][1] <= terms[t][k][2]
                     /\ \E a \in DOMAIN qi.nz :
                           /\ qi.nz[a].w # 0
                           /\ terms[t][k] = <<qi.nz[a].i, qi.nz[a].j, qi.nz[a].w>>

C11_Witness ==
    \E t \in Threads :
        /\ pc[t] = "bridge"
        /\ Len(qi.nz) = 2
        /\ qi.nz[1].w # 0
        /\ qi.nz[2].w # 0
        /\ qi.nz[1].i > qi.nz[2].i
        /\ Cardinality(OffDiagonal(terms[t])) = 2

(***************************************************************************)
(* The enabled build with callers of the declared interface next to the    *)
(* adapters: they choose backend, config path and terms freely.            *)
(***************************************************************************)
InitDirect ==
    /\ useDwave = TRUE
    /\ qi = PairInstance
    /\ InitCommon

NextDirect ==
    \/ Next
    \/ \E t \in Threads : Direct_Start(t)
    \/ \E t \in Threads : Direct_Finish(t)

SpecDirect == InitDirect /\ [][NextDirect]_vars

(***************************************************************************)
(* C12.  solve_qubo receives None as its third argument exactly when       *)
(* config_json_path is empty, and never an empty string; otherwise it      *)
(* receives the path as a string; every call made by an adapter receives   *)
(* None.                                                                   *)
(***************************************************************************)
C12_NoConfigIsNone ==
    \A t \in Threads :
        callArgs[t].made
            => /\ callArgs[t].cfg.none = (cfgPath[t] = "")
               /\ ~(~callArgs[t].cfg.none /\ callArgs[t].cfg.str = "")
               /\ cfgPath[t] # ""
                     => callArgs[t].cfg = [none |-> FALSE, str |-> cfgPath[t]]
               /\ caller[t] \in Adapters => callArgs[t].cfg.none

C12_Witness ==
    \E t1, t2 \in Threads :
        /\ callArgs[t1].made
        /\ caller[t1] = "direct"
        /\ cfgPath[t1] = "cfg.json"
        /\ callArgs[t1].cfg = [none |-> FALSE, str |-> "cfg.json"]
        /\ callArgs[t2].made
        /\ caller[t2] \in Adapters
        /\ callArgs[t2].cfg.none

(***************************************************************************)
(* C13.  When solve_qubo returns an object that is not a two-element       *)
(* sequence, or whose elements do not cast to (sequence of int, float),    *)
(* run_dwave_solver returns an empty best_sample and an error.             *)
(***************************************************************************)
C13_MalformedIsError ==
    \A t \in Threads :
        (pc[t] = "returned" /\ ret[t].kind # "none" /\ ~IsPair(ret[t]))
            => /\ result[t].best_sample = <<>>
               /\ error[t] # ""

(***************************************************************************)
(* Two constructions on the same instance, extraction only.                *)
(***************************************************************************)
NextExtractTwice ==
    \E t \in 1..2 : DWaveQPU_Start(t) \/ DWaveSA_Start(t)

SpecExtractTwice == InitExtract /\ [][NextExtractTwice]_vars

C15_VenvStepHarmless ==
    [][\A t \in Threads :
          (pc[t] = "venv" /\ pc'[t] # "venv")
              => /\ pc'[t] = "import"
                 /\ exc'[t] = NoExc
                 /\ error'[t] = ""
                 /\ result'[t] = EmptyResult
                 /\ ret'[t] = NoRet
                 /\ callArgs'[t] = NoArgs
                 /\ foreignCalls' = foreignCalls
                 /\ gil' = gil
                 /\ sysPath' \in {sysPath, <<VenvSite>> \o sysPath}]_vars

C15_Witness ==
    \E t \in Threads :
        /\ pc[t] = "in_python"
        /\ callArgs[t].made
        /\ sysPath = <<HelperDir>>

(***************************************************************************)
(* C16.  When run_dwave_solver returned an error or an empty best_sample,  *)
(* the adapter writes exactly one diagnostic, labelled with its own name   *)
(* and, for an error, carrying the message, reports nothing and returns;   *)
(* and no solution is ever constructed from an empty assignment.           *)
(***************************************************************************)
C16_OneDiagnosticOnFailure ==
    [][\A t \in Threads :
          /\ (AdapterHandles(t) /\ error[t] # "")
                => /\ diag'[t] = <<Diagnostic(caller[t], "error", error[t])>>
                   /\ reports'[t] = <<>>
          /\ (AdapterHandles(t) /\ error[t] = "" /\ result[t].best_sample = <<>>)
                => /\ diag'[t] = NoSample(t)
                   /\ reports'[t] = <<>>
          /\ \A k \in DOMAIN reports'[t] : reports'[t][k].assignment # <<>>
          /\ (pc[t] = "returned" /\ pc'[t] # "returned") => pc'[t] = "done"]_vars

C16_Witness ==
    \E t1, t2 \in Threads :
        /\ pc[t1] = "done"
        /\ diag[t1] = <<Diagnostic("DWaveQPU", "error", "timeout")>>
        /\ reports[t1] = <<>>
        /\ pc[t2] = "done"
        /\ diag[t2] = <<Diagnostic("DWaveSA", "no sample returned", "")>>
        /\ reports[t2] = <<>>

(***************************************************************************)
(* C17.  The two adapters differ only in the backend string and in the     *)
(* label of their diagnostics: on every instance they extract the same     *)
(* term list; they pass no config path, so solve_qubo gets the same terms  *)
(* and None from both; and on every outcome of run_dwave_solver each takes *)
(* the decision the other would take: same Report or none, same reported   *)
(* solution, same diagnostic but for the label.                            *)
(***************************************************************************)
Unlabel(d) == [k \in DOMAIN d |-> [what |-> d[k].what, msg |-> d[k].msg]]

Labels(d) == {d[k].label : k \in DOMAIN d}

BackendOf(who) == IF who = "DWaveQPU" THEN "qpu" ELSE "sa"

C17_AdaptersAlike ==
    [][/\ (\A t \in Threads : pc[t] = "idle")
             => \A n \in 0..MaxSize :
                    \A l \in [1..n -> LinWeights], z \in NonzeroLists(n) :
                        DWaveQPU_Terms(Instance(n, l, z))
                            = DWaveSA_Terms(Instance(n, l, z))
       /\ \A t \in Threads :
             /\ (pc[t] = "idle" /\ pc'[t] = "bridge" /\ caller'[t] \in Adapters)
                   => /\ terms'[t] = DWaveQPU_Terms(qi)
                      /\ terms'[t] = DWaveSA_Terms(qi)
                      /\ cfgPath'[t] = ""
                      /\ backend'[t] = BackendOf(caller'[t])
             /\ (callArgs'[t].made /\ caller'[t] \in Adapters)
                   => callArgs'[t] = [made |-> TRUE,
                                      terms |-> DWaveSA_Terms(qi),
                                      backend |-> BackendOf(caller'[t]),
                                      cfg |-> CfgPathObj("")]
             /\ AdapterHandles(t)
                   => /\ reports'[t] = DWaveQPU_Handle(error[t], result[t], qi).reports
                      /\ reports'[t] = DWaveSA_Handle(error[t], result[t], qi).reports
                      /\ Unlabel(diag'[t])
                            = Unlabel(DWaveQPU_Handle(error[t], result[t], qi).diag)
                      /\ Unlabel(diag'[t])
                            = Unlabel(DWaveSA_Handle(error[t], result[t], qi).diag)
                      /\ Labels(diag'[t]) \subseteq {caller[t]}]_vars

C17_Witness ==
    \E t1, t2 \in Threads :
        /\ pc[t1] = "done" /\ caller[t1] = "DWaveQPU"
        /\ pc[t2] = "done" /\ caller[t2] = "DWaveSA"
        /\ Len(reports[t1]) = 1
        /\ reports[t1] = reports[t2]

(***************************************************************************)
(* C18.  An adapter execution calls run_dwave_solver exactly once: the     *)
(* call is entered with the extracted terms in hand, its return is         *)
(* followed by the end of the constructor and by nothing else (no second   *)
(* call after an error or an empty sample), and a Report exists only once  *)
(* the call has returned.                                                  *)
(***************************************************************************)
ExtractedBy(who) == IF who = "DWaveQPU" THEN DWaveQPU_Terms(qi) ELSE DWaveSA_Terms(qi)

C18_OneBridgeCall ==
    [][\A t \in Threads :
          /\ (caller'[t] \in Adapters /\ pc'[t] # "idle") => bridgeCalls'[t] = 1
          /\ (caller'[t] \in Adapters /\ pc'[t] \notin {"idle", "done", "escaped"})
                => terms'[t] = ExtractedBy(caller'[t])
          /\ (pc[t] = "returned" /\ pc'[t] # "returned") => pc'[t] = "done"
          /\ pc[t] = "done" => pc'[t] = "done"
          /\ reports'[t] # <<>> => (pc[t] \in {"returned", "done"} /\ pc'[t] = "done")
      ]_vars

C18_Witness ==
    \E t1, t2 \in Threads :
        /\ pc[t1] = "done" /\ bridgeCalls[t1] = 1
        /\ diag[t1] = <<Diagnostic("DWaveSA", "error", "timeout")>>
        /\ pc[t2] = "done" /\ bridgeCalls[t2] = 1
        /\ diag[t2] = <<Diagnostic("DWaveQPU", "no sample returned", "")>>

(***************************************************************************)
(* Scheduling: a thread that can take its next step takes it; a thread     *)
(* waiting for the interpreter's lock gets it if it is free again and      *)
(* again; an interpreter that dropped the lock gets it back likewise; and  *)
(* every call of solve_qubo ends, by returning or by raising.  Nothing     *)
(* obliges a caller to start, nor the interpreter to drop its lock.        *)
(***************************************************************************)
Fairness ==
    \A t \in Threads :
        /\ WF_vars(GetEnvBegin(t))
        /\ WF_vars(EnvInitDone(t) \/ EnvInitThrow(t))
        /\ WF_vars(GetEnvReady(t))
        /\ SF_vars(GilAcquire(t))
        /\ WF_vars(PathSetup(t))
        /\ WF_vars(VenvStep(t))
        /\ WF_vars(ImportAndCall(t))
        /\ SF_vars(InterpreterResume(t))
        /\ SF_vars(ForeignReturn(t) \/ ForeignRaise(t))
        /\ WF_vars(DWaveQPU_Finish(t))
        /\ WF_vars(DWaveSA_Finish(t))

SpecLive == Init /\ [][Next]_vars /\ Fairness

(***************************************************************************)
(* C19.  Every call of run_dwave_solver that has been entered eventually   *)
(* comes back: the caller waiting for the lock is eventually admitted.     *)
(* (A call that ends by the exception of get_env counts as ended here.)    *)
(***************************************************************************)
C19_EveryInvokeReturns ==
    \A t \in Threads :
        (pc[t] = "bridge") ~> (pc[t] \in {"returned", "done", "escaped"})

(***************************************************************************)
(* C20.  Every call that gets through path setup puts the helper directory *)
(* in front of the search path, present already or not; no step removes    *)
(* or reorders an entry; the dependency-directory step adds at most its    *)
(* directory in front.  So the path holds at least one copy of the helper  *)
(* directory per call that got through path setup, and at most one copy of *)
(* the dependency directory per copy of the helper directory.              *)
(***************************************************************************)
Copies(e, path) == Cardinality({k \in DOMAIN path : path[k] = e})

IsSuffix(old, new) ==
    /\ Len(old) <= Len(new)
    /\ \A k \in DOMAIN old : old[k] = new[k + Len(new) - Len(old)]

PastPathSetup(t) ==
    \/ pc[t] \in {"venv", "import", "in_python", "in_python_nogil"}
    \/ callArgs[t].made

C20_SearchPathGrows ==
    [][/\ IsSuffix(sysPath, sysPath')
       /\ \A t \in Threads :
             /\ (pc[t] = "path_setup" /\ pc'[t] = "venv")
                   => sysPath' = <<HelperDir>> \o sysPath
             /\ (pc[t] = "venv" /\ pc'[t] = "import")
                   => sysPath' \in {sysPath, <<VenvSite>> \o sysPath}
             /\ (pc[t] \notin {"path_setup", "venv"} /\ pc'[t] # pc[t])
                   => sysPath' = sysPath
       /\ Copies(HelperDir, sysPath')
             >= Cardinality({t \in Threads : PastPathSetup(t)'})
       /\ Copies(VenvSite, sysPath') <= Copies(HelperDir, sysPath')
       /\ Len(sysPath') = Copies(HelperDir, sysPath') + Copies(VenvSite, sysPath')
      ]_vars

C20_Witness ==
    /\ sysPath = <<VenvSite, HelperDir, HelperDir>>
    /\ \A t \in Threads : callArgs[t].made

====
